---- MODULE Spec2Model ----
(***************************************************************************)
(* A model of sim.py, the E20 simulator: the loader, the fetch/dispatch     *)
(* loop of main and its five instruction handlers.                          *)
(*                                                                          *)
(* Python values are modelled as they are: registers and memory cells are   *)
(* unbounded Python ints (the handlers reduce some results mod 2**16, not   *)
(* all), pc is a Python int, memory is a Python list of MEM_SIZE cells      *)
(* (negative subscripts count from the end, other subscripts outside the    *)
(* list raise IndexError), and the instruction is the 16-character string   *)
(* bin(word)[2:].zfill(16), sliced by position.                             *)
(***************************************************************************)
EXTENDS Integers, Sequences, FiniteSets, TLC

VARIABLES pc, regs, memory, halt, instr, ctl, machine_code, cycles

vars == <<pc, regs, memory, halt, instr, ctl, machine_code, cycles>>

\* ---------------------------------------------------------------- constants
NUM_REGS == 8
MEM_SIZE == 2^15

\* Bounds of the model: the longest program of the enumerated family, and the
\* number of iterations of the main loop a run is followed for.
MaxProg == 2
MaxCycles == 8

\* ------------------------------------------------------------ Python lists
\* memory = [0] * MEM_SIZE is kept as the function of its non-zero cells:
\* a cell outside DOMAIN m holds 0.
EmptyMem == [a \in {} |-> 0]

\* A subscript i of a list of MEM_SIZE cells is accepted when
\* -MEM_SIZE <= i < MEM_SIZE; a negative one counts from the end.
InList(i) == -MEM_SIZE <= i /\ i < MEM_SIZE

Cell(i) == IF i < 0 THEN i + MEM_SIZE ELSE i

MemGet(m, i) == IF Cell(i) \in DOMAIN m THEN m[Cell(i)] ELSE 0

\* MemSet, one cell too far.
MemSet_NextCell(m, i, v) ==
    IF v = 0
    THEN [a \in DOMAIN m \ {Cell(i) + 1} |-> m[a]]
    ELSE [a \in DOMAIN m \cup {Cell(i) + 1} |-> IF a = Cell(i) + 1 THEN v ELSE m[a]]

MemSet(m, i, v) ==
    IF v = 0
    THEN [a \in DOMAIN m \ {Cell(i)} |-> m[a]]
    ELSE [a \in DOMAIN m \cup {Cell(i)} |-> IF a = Cell(i) THEN v ELSE m[a]]

\* ---------------------------------------------------------- Python strings
\* A string is a sequence of one-character strings.
RECURSIVE BinDigits(_)
BinDigits(n) ==
    IF n < 2 THEN <<IF n = 1 THEN "1" ELSE "0">>
    ELSE BinDigits(n \div 2) \o <<IF n % 2 = 1 THEN "1" ELSE "0">>

\* bin(v): "0b..." for v >= 0 and "-0b..." for v < 0.
Bin(v) == IF v < 0 THEN <<"-", "0", "b">> \o BinDigits(-v)
          ELSE <<"0", "b">> \o BinDigits(v)

\* s[i:j] for 0 <= i <= j (Python clamps j to len(s)).
Slice(s, i, j) ==
    LET hi == IF j > Len(s) THEN Len(s) ELSE j
    IN IF i >= hi THEN <<>> ELSE SubSeq(s, i + 1, hi)

\* s[i:]
SliceFrom(s, i) == Slice(s, i, Len(s))

\* SliceLast, taking the first n characters (s[:n]).
SliceLast_FromFront(s, n) == Slice(s, 0, n)

\* s[-n:]
SliceLast(s, n) == IF n >= Len(s) THEN s ELSE SubSeq(s, Len(s) - n + 1, Len(s))

\* s.zfill(w): zeros on the left, after a leading sign.
Zfill(s, w) ==
    LET zeros == [k \in 1..(w - Len(s)) |-> "0"]
    IN IF Len(s) >= w THEN s
       ELSE IF Len(s) > 0 /\ s[1] \in {"+", "-"}
            THEN <<s[1]>> \o zeros \o Tail(s)
            ELSE zeros \o s

IsBinary(s) == Len(s) > 0 /\ \A k \in 1..Len(s) : s[k] \in {"0", "1"}

\* The number the first k binary digits of s write.
RECURSIVE BinValueTo(_, _)
BinValueTo(s, k) ==
    IF k = 0 THEN 0
    ELSE 2 * BinValueTo(s, k - 1) + (IF s[k] = "1" THEN 1 ELSE 0)

BinValue(s) == BinValueTo(s, Len(s))

\* int(s, 2) accepts binary digits, and binary digits after a "0b" prefix;
\* on the strings the simulator makes anything else raises ValueError.
IntOk(s) ==
    \/ IsBinary(s)
    \/ /\ Len(s) >= 3
       /\ s[1] = "0"
       /\ s[2] = "b"
       /\ IsBinary(SubSeq(s, 3, Len(s)))

Int2(s) == IF IsBinary(s) THEN BinValue(s) ELSE BinValue(SubSeq(s, 3, Len(s)))

\* instr = bin(memory[pc])[2:].zfill(16)
InstrOf(word) == Zfill(SliceFrom(Bin(word), 2), 16)

\* ------------------------------------------------- Python ints: & and |
RECURSIVE BitAnd(_, _)
BitAnd(x, y) ==
    IF x = 0 \/ y = 0 THEN 0
    ELSE IF x = -1 THEN y
    ELSE IF y = -1 THEN x
    ELSE (x % 2) * (y % 2) + 2 * BitAnd(x \div 2, y \div 2)

RECURSIVE BitOr(_, _)
BitOr(x, y) ==
    IF x = 0 THEN y
    ELSE IF y = 0 THEN x
    ELSE IF x = -1 \/ y = -1 THEN -1
    ELSE (IF x % 2 = 1 \/ y % 2 = 1 THEN 1 ELSE 0) + 2 * BitOr(x \div 2, y \div 2)

\* ------------------------------------------------------------------ loader
\* A line of the input file after the regular expression of load_machine_code:
\* match says whether the line matched, addr and instr are int(addr, 10) and
\* int(instr, 2) of its two groups.
Line(a, v) == [match |-> TRUE, addr |-> a, instr |-> v]

\* load_machine_code(machine_code, mem), from line k on: the list it leaves
\* in mem and the exception it raises ("none": it returns). A failing line
\* leaves the cells stored before it in place.
\* LoadFrom, without the test of addr against expectedaddr.
RECURSIVE LoadFrom_NoSequenceCheck(_, _, _, _)
LoadFrom_NoSequenceCheck(lines, k, expectedaddr, mem) ==
    IF k > Len(lines) THEN [memory |-> mem, raised |-> "none"]
    ELSE IF ~lines[k].match THEN [memory |-> mem, raised |-> "Exception"]
    ELSE IF ~InList(lines[k].addr) THEN [memory |-> mem, raised |-> "IndexError"]
    ELSE LoadFrom_NoSequenceCheck(lines, k + 1, expectedaddr + 1,
                                  MemSet(mem, lines[k].addr, lines[k].instr))

RECURSIVE LoadFrom(_, _, _, _)
LoadFrom(lines, k, expectedaddr, mem) ==
    IF k > Len(lines) THEN [memory |-> mem, raised |-> "none"]
    ELSE IF ~lines[k].match THEN [memory |-> mem, raised |-> "Exception"]
    ELSE IF lines[k].addr # expectedaddr THEN [memory |-> mem, raised |-> "Exception"]
    ELSE IF ~InList(lines[k].addr) THEN [memory |-> mem, raised |-> "IndexError"]
    ELSE LoadFrom(lines, k + 1, expectedaddr + 1,
                  MemSet(mem, lines[k].addr, lines[k].instr))

\* load_machine_code, not storing the first line.
load_machine_code_SkipsFirst(lines, mem) == LoadFrom(lines, 2, 1, mem)

load_machine_code(lines, mem) == LoadFrom(lines, 1, 0, mem)

\* ---------------------------------------------------------------- handlers
\* Each handler is the Python function of the same name: given pc, regs
\* (and memory) and the instruction string it yields the value it returns,
\* the lists as it leaves them, and the exception it raises, if any.

\* WriteReg, with register 0 wired to zero.
WriteReg_ZeroWired(r, dstIndex, v) == IF dstIndex = 0 THEN r ELSE [r EXCEPT ![dstIndex] = v]

\* regs[dstIndex] = v
WriteReg(r, dstIndex, v) == [r EXCEPT ![dstIndex] = v]

\* AluAdd, subtracting.
AluAdd_Subtracts(x, y) == (x - y) % 2^16

\* (regs[srcA_Index] + regs[srcB_Index]) % 2**16
AluAdd(x, y) == (x + y) % 2^16

\* AluSub, without the reduction mod 2**16.
AluSub_NoWrap(x, y) == x - y

\* (regs[srcA_Index] - regs[srcB_Index]) % 2**16
AluSub(x, y) == (x - y) % 2^16

\* if regs[srcA_Index] < regs[srcB_Index]: 1, else: 0 (Python compares ints)
AluSlt(x, y) == IF x < y THEN 1 ELSE 0

\* JrTarget, returning to the instruction after the address in the register.
JrTarget_Next(r, srcA_Index) == r[srcA_Index] + 1

\* return regs[srcA_Index]
JrTarget(r, srcA_Index) == r[srcA_Index]

threereg(p, r, i) ==
    LET d == Slice(i, 9, 12)
        a == Slice(i, 3, 6)
        b == Slice(i, 6, 9)
        fn == SliceLast(i, 4)
    IN IF ~(IntOk(d) /\ IntOk(a) /\ IntOk(b))
       THEN [pc |-> p, regs |-> r, raised |-> "ValueError"]
       ELSE LET dstIndex == Int2(d)
                srcA_Index == Int2(a)
                srcB_Index == Int2(b)
            IN IF fn = <<"0", "0", "0", "0">>
               THEN [pc |-> p + 1, raised |-> "none",
                     regs |-> WriteReg(r, dstIndex, AluAdd(r[srcA_Index], r[srcB_Index]))]
               ELSE IF fn = <<"0", "0", "0", "1">>
               THEN [pc |-> p + 1, raised |-> "none",
                     regs |-> WriteReg(r, dstIndex, AluSub(r[srcA_Index], r[srcB_Index]))]
               ELSE IF fn = <<"0", "0", "1", "0">>
               THEN [pc |-> p + 1, raised |-> "none",
                     regs |-> WriteReg(r, dstIndex, BitAnd(r[srcA_Index], r[srcB_Index]))]
               ELSE IF fn = <<"0", "0", "1", "1">>
               THEN [pc |-> p + 1, raised |-> "none",
                     regs |-> WriteReg(r, dstIndex, BitOr(r[srcA_Index], r[srcB_Index]))]
               ELSE IF fn = <<"0", "1", "0", "0">>
               THEN [pc |-> p + 1, raised |-> "none",
                     regs |-> WriteReg(r, dstIndex, AluSlt(r[srcA_Index], r[srcB_Index]))]
               ELSE IF fn = <<"1", "0", "0", "0">>
               THEN [pc |-> JrTarget(r, srcA_Index), regs |-> r, raised |-> "none"]
               ELSE [pc |-> p + 1, regs |-> r, raised |-> "none"]

\* SignedImm, reading all seven bits and taking 64 off a set sign bit.
SignedImm_SevenBits(i) == IF i[10] = "1" THEN Int2(SliceFrom(i, 9)) - 64
                          ELSE Int2(SliceFrom(i, 9))

\* imm = int(instr[10:], 2); if instr[9] == "1": imm -= 64
SignedImm(i) == IF i[10] = "1" THEN Int2(SliceFrom(i, 10)) - 64
                ELSE Int2(SliceFrom(i, 10))

\* ImmUnsigned, comparing with the signed immediate.
ImmUnsigned_Signed(imm) == imm

\* (imm % 2**16), the operand of the slti comparison
ImmUnsigned(imm) == imm % 2^16

\* AddImm, without the reduction mod 2**16.
AddImm_NoWrap(x, imm) == x + imm

\* (regs[srcIndex] + imm) % 2**16
AddImm(x, imm) == (x + imm) % 2^16

tworegImm(p, r, i) ==
    LET d == Slice(i, 6, 9)
        s == Slice(i, 3, 6)
    IN IF ~(IntOk(d) /\ IntOk(s) /\ IntOk(SliceFrom(i, 10)))
       THEN [pc |-> p, regs |-> r, raised |-> "ValueError"]
       ELSE LET dstIndex == Int2(d)
                srcIndex == Int2(s)
                imm == SignedImm(i)
            IN IF Slice(i, 0, 3) = <<"0", "0", "1">>
               THEN [pc |-> p + 1, raised |-> "none",
                     regs |-> WriteReg(r, dstIndex,
                                       IF r[srcIndex] < ImmUnsigned(imm) THEN 1 ELSE 0)]
               ELSE IF Slice(i, 0, 3) = <<"1", "1", "1">>
               THEN [pc |-> p + 1, raised |-> "none",
                     regs |-> WriteReg(r, dstIndex, AddImm(r[srcIndex], imm))]
               ELSE [pc |-> p + 1, regs |-> r, raised |-> "none"]

memImm(p, r, m, i) ==
    LET a == Slice(i, 3, 6)
        x == Slice(i, 6, 9)
    IN IF ~(IntOk(a) /\ IntOk(SliceFrom(i, 10)) /\ IntOk(x))
       THEN [pc |-> p, regs |-> r, memory |-> m, raised |-> "ValueError"]
       ELSE LET addrIndex == Int2(a)
                imm == SignedImm(i)
                addr == r[addrIndex] + imm
            IN IF Slice(i, 0, 3) = <<"1", "0", "0">>
               THEN IF ~InList(addr)
                    THEN [pc |-> p, regs |-> r, memory |-> m, raised |-> "IndexError"]
                    ELSE [pc |-> p + 1, memory |-> m, raised |-> "none",
                          regs |-> WriteReg(r, Int2(x), MemGet(m, addr))]
               ELSE IF Slice(i, 0, 3) = <<"1", "0", "1">>
               THEN IF ~InList(addr)
                    THEN [pc |-> p, regs |-> r, memory |-> m, raised |-> "IndexError"]
                    ELSE [pc |-> p + 1, regs |-> r, raised |-> "none",
                          memory |-> MemSet(m, addr, r[Int2(x)])]
               ELSE [pc |-> p + 1, regs |-> r, memory |-> m, raised |-> "none"]

\* BranchTaken, relative to the branch instead of the next instruction.
BranchTaken_FromPc(p, rel_imm) == p + rel_imm

\* return pc+1+rel_imm
BranchTaken(p, rel_imm) == p + 1 + rel_imm

jeq(p, r, i) ==
    LET a == Slice(i, 3, 6)
        b == Slice(i, 6, 9)
    IN IF ~(IntOk(a) /\ IntOk(b) /\ IntOk(SliceFrom(i, 10)))
       THEN [pc |-> p, raised |-> "ValueError"]
       ELSE LET regA_Index == Int2(a)
                regB_Index == Int2(b)
                rel_imm == SignedImm(i)
            IN IF r[regA_Index] = r[regB_Index]
               THEN [pc |-> BranchTaken(p, rel_imm), raised |-> "none"]
               ELSE [pc |-> p + 1, raised |-> "none"]

\* The pair j_or_jal returns is (imm, halt); regs is the list as it leaves it.
\* Link, saving the address of the jump itself.
Link_SavesPc(p, r, i) == IF Slice(i, 0, 3) = <<"0", "1", "1">> THEN [r EXCEPT ![7] = p] ELSE r

\* if instr[:3] == "011": regs[7] = pc+1
Link(p, r, i) == IF Slice(i, 0, 3) = <<"0", "1", "1">> THEN [r EXCEPT ![7] = p + 1] ELSE r

\* SelfJump, never reporting the halt.
SelfJump_Never(p, imm) == FALSE

\* if pc == imm: return (imm, True), else: return (imm, False)
SelfJump(p, imm) == p = imm

j_or_jal(p, r, i) ==
    LET r1 == Link(p, r, i)
    IN IF ~IntOk(SliceFrom(i, 3))
       THEN [imm |-> p, halt |-> FALSE, regs |-> r1, raised |-> "ValueError"]
       ELSE LET imm == Int2(SliceFrom(i, 3))
            IN [imm |-> imm, halt |-> SelfJump(p, imm), regs |-> r1, raised |-> "none"]

\* --------------------------------------------------------------- main loop
\* Family, with the memory branch testing "100" where the code tests "10".
Family_LoadOnly(i) ==
    IF Slice(i, 0, 3) = <<"0", "0", "0">> THEN "threereg"
    ELSE IF Slice(i, 0, 3) \in {<<"0", "0", "1">>, <<"1", "1", "1">>} THEN "tworegImm"
    ELSE IF Slice(i, 0, 3) = <<"1", "0", "0">> THEN "memImm"
    ELSE IF Slice(i, 0, 3) = <<"1", "1", "0">> THEN "jeq"
    ELSE IF Slice(i, 0, 2) = <<"0", "1">> THEN "j_or_jal"
    ELSE "none"

\* The branch of the if/elif chain of the loop that takes the instruction.
Family(i) ==
    IF Slice(i, 0, 3) = <<"0", "0", "0">> THEN "threereg"
    ELSE IF Slice(i, 0, 3) \in {<<"0", "0", "1">>, <<"1", "1", "1">>} THEN "tworegImm"
    ELSE IF Slice(i, 0, 2) = <<"1", "0">> THEN "memImm"
    ELSE IF Slice(i, 0, 3) = <<"1", "1", "0">> THEN "jeq"
    ELSE IF Slice(i, 0, 2) = <<"0", "1">> THEN "j_or_jal"
    ELSE "none"

\* The loop is about to run its body: loaded, not halted, nothing raised.
Running == ctl = "loop" /\ ~halt

Halted == ctl = "loop" /\ halt

\* memory[pc] and the instruction string made of it, when pc is accepted.
Word == MemGet(memory, pc)

Fetched == InstrOf(Word)

\* An iteration the model follows: the fetch succeeds, instr is i and the
\* branch of family f takes it.
Cycle(f, i) ==
    /\ Running
    /\ cycles < MaxCycles
    /\ InList(pc)
    /\ Family(i) = f
    /\ instr' = i
    /\ cycles' = cycles + 1
    /\ machine_code' = machine_code

\* pc = threereg(pc, regs, instr)
StepThreereg ==
    \E i \in {Fetched} :
       /\ Cycle("threereg", i)
       /\ \E res \in {threereg(pc, regs, i)} :
             /\ pc' = res.pc
             /\ regs' = res.regs
             /\ ctl' = IF res.raised = "none" THEN ctl ELSE res.raised
       /\ UNCHANGED <<memory, halt>>

\* pc = tworegImm(pc, regs, instr)
StepTworegImm ==
    \E i \in {Fetched} :
       /\ Cycle("tworegImm", i)
       /\ \E res \in {tworegImm(pc, regs, i)} :
             /\ pc' = res.pc
             /\ regs' = res.regs
             /\ ctl' = IF res.raised = "none" THEN ctl ELSE res.raised
       /\ UNCHANGED <<memory, halt>>

\* pc = memImm(pc, regs, memory, instr)
StepMemImm ==
    \E i \in {Fetched} :
       /\ Cycle("memImm", i)
       /\ \E res \in {memImm(pc, regs, memory, i)} :
             /\ pc' = res.pc
             /\ regs' = res.regs
             /\ memory' = res.memory
             /\ ctl' = IF res.raised = "none" THEN ctl ELSE res.raised
       /\ UNCHANGED halt

\* pc = jeq(pc, regs, instr)
StepJeq ==
    \E i \in {Fetched} :
       /\ Cycle("jeq", i)
       /\ \E res \in {jeq(pc, regs, i)} :
             /\ pc' = res.pc
             /\ ctl' = IF res.raised = "none" THEN ctl ELSE res.raised
       /\ UNCHANGED <<regs, memory, halt>>

\* result = j_or_jal(pc, regs, instr); halt on result[1], else pc = result[0]
StepJOrJal ==
    \E i \in {Fetched} :
       /\ Cycle("j_or_jal", i)
       /\ \E result \in {j_or_jal(pc, regs, i)} :
             /\ regs' = result.regs
             /\ halt' = (result.raised = "none" /\ result.halt)
             /\ pc' = IF result.raised = "none" /\ ~result.halt THEN result.imm ELSE pc
             /\ ctl' = IF result.raised = "none" THEN ctl ELSE result.raised
       /\ UNCHANGED memory

\* memory[pc] with pc outside the list: the fetch raises IndexError.
FetchRaise ==
    /\ Running
    /\ cycles < MaxCycles
    /\ ~InList(pc)
    /\ ctl' = "IndexError"
    /\ cycles' = cycles + 1
    /\ UNCHANGED <<pc, regs, memory, halt, instr, machine_code>>

\* main, up to the loop: read the file into memory, then halt = False.
LoadMachineCode ==
    /\ ctl = "load"
    /\ \E res \in {load_machine_code(machine_code, memory)} :
          /\ memory' = res.memory
          /\ ctl' = IF res.raised = "none" THEN "loop" ELSE res.raised
    /\ halt' = FALSE
    /\ UNCHANGED <<pc, regs, instr, machine_code, cycles>>

\* ------------------------------------------------------------------ inputs
\* Instruction words, by their fields (the layouts the handlers slice).
R3(srcA, srcB, dst, fn) == srcA * 1024 + srcB * 128 + dst * 16 + fn

I7(op, ra, rb, imm) == op * 8192 + ra * 1024 + rb * 128 + (imm % 128)

J13(op, target) == op * 8192 + target

\* The instructions the enumerated programs are made of.
Words ==
    { I7(7, 0, 1, 5),      \* addi $1, $0, 5
      I7(7, 1, 1, -1),     \* addi $1, $1, -1
      I7(7, 0, 2, -64),    \* addi $2, $0, -64
      R3(1, 2, 3, 0),      \* add  $3, $1, $2
      R3(1, 1, 1, 0),      \* add  $1, $1, $1
      R3(1, 2, 3, 1),      \* sub  $3, $1, $2
      R3(2, 1, 2, 1),      \* sub  $2, $2, $1
      R3(1, 2, 3, 2),      \* and  $3, $1, $2
      R3(1, 2, 3, 3),      \* or   $3, $1, $2
      R3(1, 2, 3, 4),      \* slt  $3, $1, $2
      R3(2, 1, 2, 4),      \* slt  $2, $2, $1
      R3(1, 0, 0, 8),      \* jr   $1
      R3(1, 2, 3, 5),      \* function code 0101
      I7(1, 1, 2, -1),     \* slti $2, $1, -1
      I7(1, 1, 2, 3),      \* slti $2, $1, 3
      I7(4, 1, 2, 1),      \* lw   $2, 1($1)
      I7(4, 0, 1, 0),      \* lw   $1, 0($0)
      I7(5, 1, 1, 2),      \* sw   $1, 2($1)
      I7(5, 0, 1, -1),     \* sw   $1, -1($0)
      I7(6, 1, 2, 1),      \* jeq  $1, $2, 1
      I7(6, 0, 0, -2),     \* jeq  $0, $0, -2
      J13(2, 0),           \* j    0
      J13(2, 1),           \* j    1
      J13(3, 1),           \* jal  1
      J13(3, 0) }          \* jal  0

\* addi $1,$0,5; addi $2,$0,3; add $3,$1,$2; j 3
ProgSum == <<57477, 57603, 1328, 16387>>

\* lw $1,3($0); sw $1,-2($0); jeq $0,$0,-5; jal 3
\* The jal word is copied to the cell the branch then reaches below zero.
ProgLink == <<I7(4, 0, 1, 3), I7(5, 0, 1, -2), I7(6, 0, 0, -5), J13(3, 3)>>

\* lw $1,4($0); sw $1,-2($0); jeq $0,$0,-5; slt $2,$7,$0; jal 3
ProgSlt == <<I7(4, 0, 1, 4), I7(5, 0, 1, -2), I7(6, 0, 0, -5), R3(7, 0, 2, 4), J13(3, 3)>>

\* lw $1,5($0); sw $1,-2($0); jeq $0,$0,-5; sw $7,4($0); (cell 4); jal 3
ProgNegWord == <<I7(4, 0, 1, 5), I7(5, 0, 1, -2), I7(6, 0, 0, -5), I7(5, 0, 7, 4), 0, J13(3, 3)>>

\* lw $1,5($0); sw $1,-9($0); jeq $0,$0,-12; sw $7,4($0); (cell 4); jal 3
ProgBadWord == <<I7(4, 0, 1, 5), I7(5, 0, 1, -9), I7(6, 0, 0, -12), I7(5, 0, 7, 4), 0, J13(3, 3)>>

\* lw $1,2($0); jr $1; the address of the last cell
ProgLast == <<I7(4, 0, 1, 2), R3(1, 0, 0, 8), MEM_SIZE - 1>>

\* addi $1,$0,-7; sw $1,9($0); lw $2,9($0); jal 3
ProgStoreLoad == <<I7(7, 0, 1, -7), I7(5, 0, 1, 9), I7(4, 0, 2, 9), J13(3, 3)>>

\* addi $1,$0,-3; addi $2,$0,9; add $1,$1,$2; sub $2,$1,$2; j 4
ProgWrap == <<I7(7, 0, 1, -3), I7(7, 0, 2, 9), R3(1, 2, 1, 0), R3(1, 2, 2, 1), J13(2, 4)>>

\* addi $1,$0,2; addi $1,$1,-1; jeq $1,$0,1; jeq $0,$0,-3; j 4
ProgLoop == <<I7(7, 0, 1, 2), I7(7, 1, 1, -1), I7(6, 1, 0, 1), I7(6, 0, 0, -3), J13(2, 4)>>

\* addi $0,$0,5; add $1,$0,$0; sub $0,$1,$0; and $0,$1,$1; or $0,$0,$1;
\* slt $0,$1,$0; slti $0,$0,3; lw $0,0($0); j 8
\* Every register-writing instruction with register 0 as its destination.
ProgReg0 ==
    <<I7(7, 0, 0, 5), R3(0, 0, 1, 0), R3(1, 0, 0, 1), R3(1, 1, 0, 2), R3(0, 1, 0, 3),
      R3(1, 0, 0, 4), I7(1, 0, 0, 3), I7(4, 0, 0, 0), J13(2, 8)>>

\* jeq $0,$0,-1: a branch to itself
ProgSpin == <<I7(6, 0, 0, -1)>>

\* addi $1,$0,5, then the three-register words on $1,$1,$1 with the
\* function codes no branch of threereg tests, then j to itself.
ProgFuncLow ==
    <<I7(7, 0, 1, 5), R3(1, 1, 1, 5), R3(1, 1, 1, 6), R3(1, 1, 1, 7), R3(1, 1, 1, 9),
      R3(1, 1, 1, 10), J13(2, 6)>>

ProgFuncHigh ==
    <<I7(7, 0, 1, 5), R3(1, 1, 1, 11), R3(1, 1, 1, 12), R3(1, 1, 1, 13), R3(1, 1, 1, 14),
      R3(1, 1, 1, 15), J13(2, 6)>>

Scenarios ==
    {ProgSum, ProgLink, ProgSlt, ProgNegWord, ProgBadWord, ProgLast,
     ProgStoreLoad, ProgWrap, ProgLoop, ProgReg0, ProgSpin, ProgFuncLow,
     ProgFuncHigh}

Programs == UNION {[1..n -> Words] : n \in 0..MaxProg} \cup Scenarios

\* The file of a program: its words at the addresses 0, 1, ...
FileOf(prog) == [k \in 1..Len(prog) |-> Line(k - 1, prog[k])]

\* Files with lines that do not match and addresses out of sequence.
LoaderLines ==
    {[match |-> m, addr |-> a, instr |-> v] :
        m \in BOOLEAN, a \in 0..MaxProg, v \in {I7(7, 0, 1, 5), J13(2, 1)}}

LoaderFiles == UNION {[1..n -> LoaderLines] : n \in 1..MaxProg}

Files == {FileOf(prog) : prog \in Programs} \cup LoaderFiles

\* ----------------------------------------------------------- specification
Init ==
    /\ pc = 0
    /\ regs = [k \in 0..(NUM_REGS - 1) |-> 0]
    /\ memory = EmptyMem
    /\ halt = FALSE
    /\ instr = <<>>
    /\ ctl = "load"
    /\ machine_code \in Files
    /\ cycles = 0

\* An iteration whose instruction no branch of the loop takes (Family is
\* "none") changes neither pc, regs nor memory and repeats for ever; the
\* words that do this are below -4095, further than MaxCycles cycles away.
Next ==
    \/ LoadMachineCode
    \/ StepThreereg
    \/ StepTworegImm
    \/ StepMemImm
    \/ StepJeq
    \/ StepJOrJal
    \/ FetchRaise

Spec == Init /\ [][Next]_vars

\* The runs of the scenarios and of the shorter enumerated programs, with
\* the interpreter running on: a step that can be taken is taken.
LiveFiles ==
    {FileOf(prog) : prog \in Scenarios \cup UNION {[1..n -> Words] : n \in 0..(MaxProg - 1)}}

LiveInit == Init /\ machine_code \in LiveFiles

LiveSpec == LiveInit /\ [][Next]_vars /\ WF_vars(Next)

\* ------------------------------------------------------- instruction layout
\* The fields of a 16-bit word, most significant bit first: bits 0..2 the
\* leading code, 3..5, 6..8 and 9..11 register indices, 12..15 the function
\* code, 9..15 the immediate field, 3..15 the jump target.
IsWord(w) == w \in 0..(2^16 - 1)

Lead(w) == w \div 8192

RegA(w) == (w \div 1024) % 8

RegB(w) == (w \div 128) % 8

RegC(w) == (w \div 16) % 8

Func(w) == w % 16

ImmField(w) == w % 128

Target(w) == w % 8192

\* This step is a cycle of the loop that fetches a 16-bit word at pc.
Executes == Running /\ InList(pc) /\ IsWord(Word) /\ cycles' = cycles + 1

\* ------------------------------------------------------------------ claims

\* C1: at every fetch of the main loop the program counter satisfies
\* 0 <= pc < 32768, whatever instructions have executed before.
\* The simulator breaks this: a branch with a negative offset leaves pc below
\* zero (and memory[pc] then reads from the end of the list), jr and the
\* fall-through at the last cell leave pc at or above MEM_SIZE.
PcIndexesMemory == Running => (0 <= pc /\ pc < MEM_SIZE)

\* C2: after any sequence of executed instructions every register and every
\* memory cell holds a value in [0, 2^16), register 7 after jump-and-link
\* and memory cells after store included.
\* The simulator breaks this: jal at a pc below -1 (see C1) stores pc + 1 < 0
\* in register 7, and sw copies it to memory.
ValuesAreWords ==
    /\ \A k \in DOMAIN regs : IsWord(regs[k])
    /\ \A a \in DOMAIN memory : IsWord(memory[a])

\* C3: when the instruction fetched at pc is a jump (j or jal) whose 13-bit
\* target equals pc, the run is Halted after that cycle with pc unchanged;
\* and once Halted nothing changes any more.
SelfJumpHalts ==
    [][ /\ (Executes /\ Lead(Word) \in {2, 3} /\ Target(Word) = pc)
            => (Halted' /\ pc' = pc)
        /\ Halted => UNCHANGED vars ]_vars

\* A plain jump at a non-zero address has halted the run on itself.
SelfJumpHaltsWitness ==
    /\ Halted
    /\ pc > 0
    /\ Lead(Word) = 2
    /\ Target(Word) = pc
    /\ instr = InstrOf(Word)

\* C4: jal at pc sets register 7 to pc + 1, leaves registers 0..6 and memory
\* unchanged and transfers control to the 13-bit target; j leaves every
\* register and memory unchanged; the halting self-jump included.
JumpFrame ==
    [][ (Executes /\ Lead(Word) \in {2, 3}) =>
           /\ memory' = memory
           /\ pc' = Target(Word)
           /\ Lead(Word) = 3 => regs' = [regs EXCEPT ![7] = pc + 1]
           /\ Lead(Word) = 2 => regs' = regs ]_vars

\* A jal has halted the run on itself and left its link in register 7,
\* beside other registers that hold values.
JumpFrameWitness ==
    /\ Halted
    /\ Lead(Word) = 3
    /\ instr = InstrOf(Word)
    /\ regs[7] = pc + 1
    /\ \E k \in 1..6 : regs[k] # 0

\* The value of a 7-bit field f read as two's complement, -64..63.
TwosComplement(f) == IF f >= 64 THEN f - 128 ELSE f

\* The effect of a cycle of the immediate families (slti, addi, lw, sw, jeq)
\* on the fetched word when its immediate is imm.
ImmEffect(imm) ==
    LET ra == regs[RegA(Word)]
        rb == regs[RegB(Word)]
    IN /\ Lead(Word) = 7 => regs'[RegB(Word)] = (ra + imm) % 2^16
       /\ Lead(Word) = 1 => regs'[RegB(Word)] = (IF ra < imm % 2^16 THEN 1 ELSE 0)
       /\ Lead(Word) = 4 =>
             IF InList(ra + imm) THEN regs'[RegB(Word)] = MemGet(memory, ra + imm)
             ELSE ctl' = "IndexError"
       /\ Lead(Word) = 5 =>
             IF InList(ra + imm) THEN memory' = MemSet(memory, ra + imm, rb)
             ELSE ctl' = "IndexError"
       /\ Lead(Word) = 6 => pc' = (IF ra = rb THEN pc + 1 + imm ELSE pc + 1)

\* C5, as stated: for a 7-bit immediate field f (0..127) the immediate used
\* by the two-register-immediate, memory and branch handlers is f - 64 when
\* the field's sign bit is set, and f when it is clear.
ImmIsFieldMinus64 ==
    [][ (Executes /\ Lead(Word) \in {1, 7, 4, 5, 6}) =>
           ImmEffect(IF ImmField(Word) >= 64 THEN ImmField(Word) - 64
                     ELSE ImmField(Word)) ]_vars

\* C5, amended: the immediate used is f - 128 when the field's sign bit is
\* set (the low six bits minus 64, the two's-complement value, -64..-1), and
\* f when it is clear.
ImmIsTwosComplement ==
    [][ (Executes /\ Lead(Word) \in {1, 7, 4, 5, 6}) =>
           ImmEffect(TwosComplement(ImmField(Word))) ]_vars

\* addi $1, $1, -1 (field 127) has taken register 1 from 0 to 65535.
ImmIsTwosComplementWitness ==
    /\ Running
    /\ instr = InstrOf(I7(7, 1, 1, -1))
    /\ ImmField(I7(7, 1, 1, -1)) = 127
    /\ regs[1] = 2^16 - 1

\* C6: three-register add (function code 0000) and sub (0001) on source
\* values a and b in [0, 2^16) leave (a + b) mod 2^16, respectively
\* (a - b) mod 2^16, a non-negative value, in the destination register, for
\* every choice of the three indices; next pc = pc + 1.
AddSubWraps ==
    [][ ( /\ Executes
          /\ Lead(Word) = 0
          /\ Func(Word) \in {0, 1}
          /\ IsWord(regs[RegA(Word)])
          /\ IsWord(regs[RegB(Word)]) ) =>
           LET a == regs[RegA(Word)]
               b == regs[RegB(Word)]
           IN /\ regs'[RegC(Word)] = (IF Func(Word) = 0 THEN a + b ELSE a - b) % 2^16
              /\ regs'[RegC(Word)] >= 0
              /\ pc' = pc + 1 ]_vars

\* sub $2, $1, $2 with destination equal to a source has taken 6 - 9 to
\* 65533, after add $1, $1, $2 took 65533 + 9 to 6.
AddSubWrapsWitness ==
    /\ Running
    /\ instr = InstrOf(R3(1, 2, 2, 1))
    /\ regs[1] = 6
    /\ regs[2] = 2^16 - 3
    /\ machine_code = FileOf(ProgWrap)

\* C7: three-register set-less-than (function code 0100) writes exactly 1
\* when the unsigned 16-bit value of srcA is strictly less than that of srcB
\* and exactly 0 otherwise, in every reachable state.
\* The simulator breaks this where a register holds a negative int (see C2):
\* it compares Python ints, so -1 (65535 as 16 bits) is less than 0.
SltIsUnsigned ==
    [][ (Executes /\ Lead(Word) = 0 /\ Func(Word) = 4) =>
           regs'[RegC(Word)] =
              (IF regs[RegA(Word)] % 2^16 < regs[RegB(Word)] % 2^16 THEN 1 ELSE 0) ]_vars

\* C8: the program addi $1,$0,5; addi $2,$0,3; add $3,$1,$2; j 3 at
\* addresses 0..3, zeros elsewhere, eventually reaches Halted with
\* register 1 = 5, register 2 = 3, register 3 = 8, the others 0, and pc = 3.
SumProgramHalts ==
    (machine_code = FileOf(ProgSum))
        ~> ( /\ Halted
             /\ pc = 3
             /\ regs = [k \in 0..7 |-> CASE k = 1 -> 5 [] k = 2 -> 3 [] k = 3 -> 8
                                        [] OTHER -> 0] )

\* The run of that program has halted.
SumProgramHaltsWitness ==
    /\ machine_code = FileOf(ProgSum)
    /\ Halted
    /\ regs[3] = 8
    /\ cycles = 4

\* C9: when a store (sw) with effective address A and source value v is
\* followed, as the next instruction executed, by a load (lw) with effective
\* address A, the load's destination register holds v afterwards, for every
\* A in [0, 32768) and v in [0, 2^16).
\* The store is the instruction in instr; it leaves the registers as they
\* were, so its address and value are read off the state before the load.
StoreThenLoad ==
    [][ ( /\ Executes
          /\ Lead(Word) = 4
          /\ IsBinary(instr)
          /\ Lead(Int2(instr)) = 5
          /\ LET sw == Int2(instr)
                 A == regs[RegA(sw)] + TwosComplement(ImmField(sw))
             IN /\ A \in 0..(MEM_SIZE - 1)
                /\ regs[RegA(Word)] + TwosComplement(ImmField(Word)) = A
                /\ IsWord(regs[RegB(sw)]) ) =>
           regs'[RegB(Word)] = regs[RegB(Int2(instr))] ]_vars

\* sw $1, 9($0) then lw $2, 9($0): register 2 holds the 65529 of register 1.
StoreThenLoadWitness ==
    /\ Running
    /\ instr = InstrOf(I7(4, 0, 2, 9))
    /\ machine_code = FileOf(ProgStoreLoad)
    /\ regs[1] = 2^16 - 7
    /\ regs[2] = 2^16 - 7
    /\ MemGet(memory, 9) = 2^16 - 7

\* C10: the equality branch (leading bits 110) at pc with signed 7-bit
\* offset o sets pc to pc + 1 + o when the two registers hold equal values
\* and to pc + 1 otherwise, and modifies no register and no memory cell.
BranchEffect ==
    [][ (Executes /\ Lead(Word) = 6) =>
           /\ regs' = regs
           /\ memory' = memory
           /\ pc' = IF regs[RegA(Word)] = regs[RegB(Word)]
                    THEN pc + 1 + TwosComplement(ImmField(Word))
                    ELSE pc + 1 ]_vars

\* jeq $0, $0, -3 at address 3 has jumped back to address 1, after
\* jeq $1, $0, 1 at address 2 fell through with register 1 = 1.
BranchEffectWitness ==
    /\ Running
    /\ machine_code = FileOf(ProgLoop)
    /\ instr = InstrOf(I7(6, 0, 0, -3))
    /\ pc = 1
    /\ regs[1] = 1

\* The effective address of the load or store fetched at pc.
EffAddr == regs[RegA(Word)] + TwosComplement(ImmField(Word))

\* The fetched word is one of add, sub, and, or, slt, slti, addi, or a lw
\* whose address is a cell of the memory list.
WritesRegister ==
    \/ Lead(Word) = 0 /\ Func(Word) \in 0..4
    \/ Lead(Word) \in {1, 7}
    \/ Lead(Word) = 4 /\ InList(EffAddr)

\* The destination register index of the fetched register-writing word.
DstIndex == IF Lead(Word) = 0 THEN RegC(Word) ELSE RegB(Word)

\* The value the fetched register-writing word computes from the registers
\* and memory as they are, register 0 read like any other.
ResultValue ==
    LET a == regs[RegA(Word)]
        b == regs[RegB(Word)]
        imm == TwosComplement(ImmField(Word))
    IN CASE Lead(Word) = 0 /\ Func(Word) = 0 -> (a + b) % 2^16
         [] Lead(Word) = 0 /\ Func(Word) = 1 -> (a - b) % 2^16
         [] Lead(Word) = 0 /\ Func(Word) = 2 -> BitAnd(a, b)
         [] Lead(Word) = 0 /\ Func(Word) = 3 -> BitOr(a, b)
         [] Lead(Word) = 0 /\ Func(Word) = 4 -> (IF a < b THEN 1 ELSE 0)
         [] Lead(Word) = 1 -> (IF a < imm % 2^16 THEN 1 ELSE 0)
         [] Lead(Word) = 7 -> (a + imm) % 2^16
         [] OTHER -> MemGet(memory, EffAddr)

\* C11: register 0 is an ordinary writable register: a register-writing
\* instruction (add, sub, and, or, slt, slti, addi, lw) whose destination
\* index is 0 stores its result in register 0, and the result is computed
\* from the value register 0 holds, not from zero, when register 0 is read.
Reg0IsWritable ==
    [][ (Executes /\ WritesRegister /\ DstIndex = 0) =>
           regs' = [regs EXCEPT ![0] = ResultValue] ]_vars

\* After addi $0,$0,5 the add $1,$0,$0 has read 5 twice from register 0.
Reg0IsWritableWitness ==
    /\ Running
    /\ machine_code = FileOf(ProgReg0)
    /\ instr = InstrOf(R3(0, 0, 1, 0))
    /\ regs[0] = 5
    /\ regs[1] = 10

\* C12: a load or store whose effective address (base register value plus
\* signed 7-bit immediate) falls outside [0, 32768), below 0 or at or above
\* the memory size, is a fatal addressing error: the run stops, and the
\* instruction neither reads a value into a register nor writes a value to
\* any memory cell.
OutOfRangeIsFatal ==
    [][ (Executes /\ Lead(Word) \in {4, 5} /\ EffAddr \notin 0..(MEM_SIZE - 1)) =>
           /\ ctl' # "loop"
           /\ regs' = regs
           /\ memory' = memory ]_vars

\* The input is an ordered sequence of (address, value) pairs with the
\* addresses exactly 0, 1, ..., k-1, k <= memory size, values in [0, 2^16).
ContiguousImage ==
    /\ Len(machine_code) <= MEM_SIZE
    /\ \A k \in 1..Len(machine_code) :
          /\ machine_code[k].match
          /\ machine_code[k].addr = k - 1
          /\ IsWord(machine_code[k].instr)

\* C13: loading an ordered sequence of (address, value) pairs with addresses
\* exactly 0, 1, ..., k-1 into an all-zero memory succeeds and yields a
\* memory with memory[i] equal to the i-th value for every i < k and
\* memory[i] = 0 for every i >= k (the cells outside DOMAIN memory hold 0).
LoadRoundTrip ==
    [][ (ctl = "load" /\ ContiguousImage /\ memory = EmptyMem) =>
           /\ ctl' = "loop"
           /\ \A i \in 0..(Len(machine_code) - 1) :
                 MemGet(memory', i) = machine_code[i + 1].instr
           /\ \A a \in DOMAIN memory' : a < Len(machine_code) ]_vars

\* A four-word image has just been loaded: the four words are in cells
\* 0..3, cell 4 is zero and no instruction has run.
LoadRoundTripWitness ==
    /\ Running
    /\ cycles = 0
    /\ ContiguousImage
    /\ Len(machine_code) = 4
    /\ \A i \in 0..3 : MemGet(memory, i) = machine_code[i + 1].instr /\ MemGet(memory, i) # 0
    /\ MemGet(memory, 4) = 0

\* Every line of the input is a pair, and pair k (counted from 1) is the
\* first whose address differs from the count k - 1 of pairs accepted so far.
FirstOutOfSequence(k) ==
    /\ \A j \in 1..Len(machine_code) : machine_code[j].match
    /\ k \in 1..Len(machine_code)
    /\ machine_code[k].addr # k - 1
    /\ \A j \in 1..(k - 1) : machine_code[j].addr = j - 1

\* C14: if the input contains a pair whose address differs from the next
\* expected address (the count of pairs accepted so far, starting at 0), the
\* loader fails with an exception at that pair, the pairs before it stored
\* and none after, and the run aborts before any instruction is fetched or
\* executed: pc stays 0, the registers stay zero, no cycle is counted.
SequenceErrorAborts ==
    \A k \in 1..Len(machine_code) :
        (ctl # "load" /\ FirstOutOfSequence(k)) =>
            /\ ctl = "Exception"
            /\ pc = 0
            /\ regs = [r \in 0..(NUM_REGS - 1) |-> 0]
            /\ instr = <<>>
            /\ cycles = 0
            /\ \A j \in 1..(k - 1) : MemGet(memory, j - 1) = machine_code[j].instr
            /\ \A a \in DOMAIN memory : a < k - 1

\* The second of two pairs came out of sequence: the loader has stopped
\* with the first pair stored and nothing has run.
SequenceErrorAbortsWitness ==
    /\ ctl = "Exception"
    /\ Len(machine_code) = 2
    /\ FirstOutOfSequence(2)
    /\ MemGet(memory, 0) = machine_code[1].instr
    /\ MemGet(memory, 0) # 0
    /\ pc = 0

\* C15: set-less-than-immediate (leading bits 001) with source register
\* value s and signed immediate i in -64..63 writes 1 to the destination
\* register when s < (i mod 2^16) and 0 otherwise, a negative immediate being
\* compared as the unsigned value 2^16 + i; the registers other than the
\* destination and all memory are unchanged and the next pc is pc + 1.
SltiEffect ==
    [][ (Executes /\ Lead(Word) = 1) =>
           LET s == regs[RegA(Word)]
               i == TwosComplement(ImmField(Word))
               u == IF i < 0 THEN 2^16 + i ELSE i
           IN /\ i \in -64..63
              /\ u = i % 2^16
              /\ regs' = [regs EXCEPT ![RegB(Word)] = IF s < u THEN 1 ELSE 0]
              /\ memory' = memory
              /\ pc' = pc + 1 ]_vars

\* slti $2, $1, -1 with register 1 = 5: 5 < 65535, so register 2 holds 1.
SltiEffectWitness ==
    /\ Running
    /\ instr = InstrOf(I7(1, 1, 2, -1))
    /\ regs[1] = 5
    /\ regs[2] = 1
    /\ pc = 2

\* C16: add-immediate (leading bits 111) with source register value s in
\* [0, 2^16) and the 7-bit immediate field read as a two's-complement value
\* i in -64..63 writes (s + i) mod 2^16 to the destination register (a
\* negative i subtracts, and wraps below zero to the top of the range),
\* leaves the other registers and memory unchanged, and sets pc to pc + 1.
AddiEffect ==
    [][ (Executes /\ Lead(Word) = 7 /\ IsWord(regs[RegA(Word)])) =>
           LET s == regs[RegA(Word)]
               i == TwosComplement(ImmField(Word))
               sum == IF s + i < 0 THEN s + i + 2^16
                      ELSE IF s + i >= 2^16 THEN s + i - 2^16
                      ELSE s + i
           IN /\ i \in -64..63
              /\ regs' = [regs EXCEPT ![RegB(Word)] = sum]
              /\ memory' = memory
              /\ pc' = pc + 1 ]_vars

\* addi $2, $0, -64 with register 0 = 0 has wrapped to 65472, after an
\* addi $1, $0, 5 that did not wrap.
AddiEffectWitness ==
    /\ Running
    /\ instr = InstrOf(I7(7, 0, 2, -64))
    /\ pc = 2
    /\ regs[1] = 5
    /\ regs[2] = 2^16 - 64

\* C17: jump-register (three-register family, function code 1000) sets pc to
\* the value the srcA register holds and modifies no register (no link value
\* is saved in register 7) and no memory cell, whatever the register index
\* and the value.
JrEffect ==
    [][ (Executes /\ Lead(Word) = 0 /\ Func(Word) = 8) =>
           /\ pc' = regs[RegA(Word)]
           /\ regs' = regs
           /\ memory' = memory ]_vars

\* jr $1 at address 1 with register 1 = 5 has moved pc to 5; register 7 is
\* still zero.
JrEffectWitness ==
    /\ Running
    /\ instr = InstrOf(R3(1, 0, 0, 8))
    /\ regs[1] = 5
    /\ pc = 5
    /\ regs[7] = 0

\* C18: a word with leading bits 000 whose low 4-bit function code is none
\* of 0000, 0001, 0010, 0011, 0100, 1000 does nothing: all registers and all
\* memory are unchanged, the run stays Running, and the next pc is pc + 1.
UnknownFuncIsNoOp ==
    [][ (Executes /\ Lead(Word) = 0 /\ Func(Word) \notin {0, 1, 2, 3, 4, 8}) =>
           /\ regs' = regs
           /\ memory' = memory
           /\ Running'
           /\ pc' = pc + 1 ]_vars

\* The word with function code 1111 on $1,$1,$1 at address 5 has left
\* register 1 at 5 and moved pc to 6, as the four before it did.
UnknownFuncIsNoOpWitness ==
    /\ Running
    /\ machine_code = FileOf(ProgFuncHigh)
    /\ instr = InstrOf(R3(1, 1, 1, 15))
    /\ regs[1] = 5
    /\ pc = 6
    /\ cycles = 6

\* The handler the leading three bits of a word name.
RoutedFamily(lead) ==
    CASE lead = 0 -> "threereg"
      [] lead \in {1, 7} -> "tworegImm"
      [] lead \in {4, 5} -> "memImm"
      [] lead = 6 -> "jeq"
      [] lead \in {2, 3} -> "j_or_jal"

\* The cycle leaves pc, the registers, memory, the halt flag and the state
\* of the run as they were.
StateUnchanged == UNCHANGED <<pc, regs, memory, halt, ctl>>

\* The fetched word changes nothing and targets its own address: a jr
\* through a register holding pc, or a taken jeq with offset -1.
SelfTargeting ==
    \/ Lead(Word) = 0 /\ Func(Word) = 8 /\ regs[RegA(Word)] = pc
    \/ /\ Lead(Word) = 6
       /\ regs[RegA(Word)] = regs[RegB(Word)]
       /\ TwosComplement(ImmField(Word)) = -1

\* C19: every word in [0, 2^16) fetched in state Running is routed to exactly
\* one handler, the one its leading bits determine (000 three-register, 001
\* or 111 two-register-immediate, 100 or 101 memory, 110 equality branch, 010
\* or 011 absolute jump), and the cycle is a step of that handler; no cycle
\* leaves the whole state unchanged except a non-mutating instruction that
\* targets its own pc.
DispatchIsTotal ==
    /\ []((Running /\ InList(pc) /\ IsWord(Word)) =>
             Family(Fetched) = RoutedFamily(Lead(Word)))
    /\ [][ Executes =>
             /\ Lead(Word) = 0 => StepThreereg
             /\ Lead(Word) \in {1, 7} => StepTworegImm
             /\ Lead(Word) \in {4, 5} => StepMemImm
             /\ Lead(Word) = 6 => StepJeq
             /\ Lead(Word) \in {2, 3} => StepJOrJal
             /\ StateUnchanged => SelfTargeting ]_vars

\* jeq $0, $0, -1 at address 0 has run twice and pc is still 0.
DispatchIsTotalWitness ==
    /\ Running
    /\ machine_code = FileOf(ProgSpin)
    /\ instr = InstrOf(I7(6, 0, 0, -1))
    /\ cycles = 2
    /\ pc = 0

\* C20: during execution memory is modified only by the store instruction
\* (leading bits 101), and a store changes at most the single cell at its
\* effective address; every other instruction family (three-register,
\* two-register-immediate, load, equality branch, absolute jump) leaves all
\* of memory unchanged.
OnlyStoreWritesItsCell ==
    [][ cycles' = cycles + 1 =>
           \/ memory' = memory
           \/ /\ Executes
              /\ Lead(Word) = 5
              /\ \A a \in DOMAIN memory \cup DOMAIN memory' :
                    a # EffAddr => MemGet(memory', a) = MemGet(memory, a) ]_vars

====
